---- MODULE Spec2Model ----
(***************************************************************************)
(* Transcript resolution of youtube_note: the three-layer fallback of      *)
(* scripts/get_transcript.py (get_transcript and its adapters), the VTT    *)
(* parser _parse_vtt, the word resegmenter _words_to_subtitles and the     *)
(* time codec of scripts/utils.py.                                         *)
(*                                                                         *)
(* Strings are sequences of one-character strings, so that strip, join,    *)
(* replace, the regular expressions and the number parsing are computed    *)
(* on characters as the code computes them.  Seconds are integers counting *)
(* milliseconds where the code has rounded them (round(x, 3)) or parsed    *)
(* them from a stamp, and ticks of a tenth of a millisecond where they     *)
(* come from a service.  The libraries the code calls (the transcript      *)
(* service, yt-dlp, the Deepgram SDK, ffmpeg, the file system) answer by   *)
(* nondeterministic choice; load_dotenv is taken to return normally.       *)
(***************************************************************************)
EXTENDS Integers, Sequences, FiniteSets, TLC

VARIABLES
    pc,               \* get_transcript: "idle", the line reached, or "done"
    video_url_or_id,  \* the arguments of the call
    language,
    subtitle_file,
    audio_file,
    video_path,
    video_exists,     \* whether a file stands at video_path
    wav,              \* the file <video_stem>.wav beside the video
    cred,             \* where a Deepgram key can be found
    calls,            \* the adapters invoked so far, with what each gave
    log,              \* the lines written to standard output so far
    returned,         \* the dict get_transcript returned, or None
    raised,           \* the exception that left get_transcript, or NoException
    vtt_cues,     \* _parse_vtt: the cue blocks the text was written from
    content,      \* _parse_vtt: the lines of the text handed to the parser
    vtt_out,      \* _parse_vtt: the list it returned
    vtt_pc,       \* "idle" (not in use), "ready", "done"
    w_words,          \* _words_to_subtitles: its arguments
    w_max_words,
    w_max_duration,
    w_out,            \* _words_to_subtitles: the list it returned
    w_pc,             \* "idle" (not in use), "ready", "done"
    t_seconds,        \* seconds_to_time: its arguments (milliseconds)
    t_include_hours,
    t_text,           \* time_to_seconds: a timestamp text
    t_formatted,      \* what seconds_to_time wrote for t_seconds
    t_back,           \* what time_to_seconds read from t_formatted
    t_parsed,         \* what time_to_seconds read from t_text
    t_reparsed,       \* t_parsed written and read again
    t_pc              \* "idle" (not in use), "ready", "done"

vtt_vars == <<vtt_cues, content, vtt_out, vtt_pc>>

words_vars == <<w_words, w_max_words, w_max_duration, w_out, w_pc>>

time_vars ==
    <<t_seconds, t_include_hours, t_text, t_formatted, t_back, t_parsed, t_reparsed, t_pc>>

call_vars ==
    <<pc, video_url_or_id, language, subtitle_file, audio_file, video_path,
      video_exists, wav, cred, calls, log, returned, raised>>

vars == <<call_vars, vtt_vars, words_vars, time_vars>>

-----------------------------------------------------------------------------
(* Characters and strings *)

DigitChars == <<"0", "1", "2", "3", "4", "5", "6", "7", "8", "9">>

IsDigit(c) == \E d \in 1..10 : DigitChars[d] = c

DigitVal(c) == (CHOOSE d \in 1..10 : DigitChars[d] = c) - 1

\* str.strip() and the regular expression class \s
IsSpace(c) == c \in {" ", "\t", "\r"}

RECURSIVE LStrip(_)
LStrip(s) ==
    IF s # <<>> /\ IsSpace(Head(s)) THEN LStrip(Tail(s)) ELSE s

RECURSIVE RStrip(_)
RStrip(s) ==
    IF s # <<>> /\ IsSpace(s[Len(s)]) THEN RStrip(SubSeq(s, 1, Len(s) - 1)) ELSE s

Strip(s) == LStrip(RStrip(s))

\* sep.join(parts)
RECURSIVE Join(_, _)
Join(sep, parts) ==
    IF parts = <<>> THEN <<>>
    ELSE IF Len(parts) = 1 THEN parts[1]
    ELSE parts[1] \o sep \o Join(sep, Tail(parts))

\* s.split(sep) for a one-character separator: never an empty list
RECURSIVE Split(_, _)
Split(s, sep) ==
    IF \A k \in 1..Len(s) : s[k] # sep THEN <<s>>
    ELSE LET k == CHOOSE n \in 1..Len(s) :
                      s[n] = sep /\ \A m \in 1..(n - 1) : s[m] # sep
         IN  <<SubSeq(s, 1, k - 1)>> \o Split(SubSeq(s, k + 1, Len(s)), sep)

\* the number a string of decimal digits writes
RECURSIVE DigitsValue(_)
DigitsValue(s) ==
    IF s = <<>> THEN 0
    ELSE 10 * DigitsValue(SubSeq(s, 1, Len(s) - 1)) + DigitVal(s[Len(s)])

AllDigits(s) == s # <<>> /\ \A k \in 1..Len(s) : IsDigit(s[k])

\* how many digits stand at s[i], s[i+1], ...
RECURSIVE DigitsAt(_, _)
DigitsAt(s, i) ==
    IF i <= Len(s) /\ IsDigit(s[i]) THEN 1 + DigitsAt(s, i + 1) ELSE 0

\* the first position from i on that holds no whitespace
RECURSIVE SkipSpace(_, _)
SkipSpace(s, i) ==
    IF i <= Len(s) /\ IsSpace(s[i]) THEN SkipSpace(s, i + 1) ELSE i

CharAt(s, i) == IF i >= 1 /\ i <= Len(s) THEN s[i] ELSE ""

\* the decimal digits of n, at least width of them (the format {n:02d})
RECURSIVE ZeroPad(_, _)
ZeroPad(n, width) ==
    IF n < 10 /\ width <= 1 THEN <<DigitChars[n + 1]>>
    ELSE ZeroPad(n \div 10, width - 1) \o <<DigitChars[(n % 10) + 1]>>

-----------------------------------------------------------------------------
(* utils.py: the time codec *)

\* int(text) and float(text) for the digit strings the callers pass; a value
\* the code would raise ValueError for is [ok |-> FALSE].
ParseInt(s) ==
    IF AllDigits(s) THEN [ok |-> TRUE, n |-> DigitsValue(s)] ELSE [ok |-> FALSE, n |-> 0]

\* float(text) in milliseconds: digits, optionally a point and up to three
\* more digits ("1.5" is 1500)
ParseFloatMs(s) ==
    LET parts == Split(s, ".")
        whole == parts[1]
        frac  == IF Len(parts) = 2 THEN parts[2] ELSE <<>>
        ok    == /\ Len(parts) <= 2
                 /\ (whole # <<>> \/ frac # <<>>)
                 /\ \A k \in 1..Len(whole) : IsDigit(whole[k])
                 /\ \A k \in 1..Len(frac) : IsDigit(frac[k])
                 /\ Len(frac) <= 3
        pad   == frac \o SubSeq(<<"0", "0", "0">>, 1, 3 - Len(frac))
    IN  IF ok THEN [ok |-> TRUE, n |-> 1000 * DigitsValue(whole) + DigitsValue(pad)]
        ELSE [ok |-> FALSE, n |-> 0]

ValueError == [ok |-> FALSE, ms |-> 0]

time_to_seconds(time_str) ==
    LET s     == Strip(time_str)
        parts == Split(s, ":")
    IN  IF time_str = <<>> \/ s = <<>> \/ Len(parts) > 3 THEN ValueError
        ELSE IF Len(parts) = 3 THEN
            LET h == ParseInt(parts[1])
                m == ParseInt(parts[2])
                f == ParseFloatMs(parts[3])
            IN  IF h.ok /\ m.ok /\ f.ok
                THEN [ok |-> TRUE, ms |-> h.n * 3600000 + m.n * 60000 + f.n]
                ELSE ValueError
        ELSE IF Len(parts) = 2 THEN
            LET m == ParseInt(parts[1])
                f == ParseFloatMs(parts[2])
            IN  IF m.ok /\ f.ok
                THEN [ok |-> TRUE, ms |-> m.n * 60000 + f.n]
                ELSE ValueError
        ELSE
            LET f == ParseFloatMs(parts[1])
            IN  IF f.ok THEN [ok |-> TRUE, ms |-> f.n] ELSE ValueError

\* the hours written only when include_hours asks for them
SecondsToTimeDropsHours(ms, include_hours, use_comma) ==
    LET hours     == ms \div 3600000
        minutes   == (ms % 3600000) \div 60000
        secs      == ms % 60000
        separator == IF use_comma THEN "," ELSE "."
        sec_str   == ZeroPad(secs \div 1000, 2) \o <<separator>> \o ZeroPad(secs % 1000, 3)
    IN  IF include_hours
        THEN ZeroPad(hours, 2) \o <<":">> \o ZeroPad(minutes, 2) \o <<":">> \o sec_str
        ELSE ZeroPad(minutes, 2) \o <<":">> \o sec_str

\* seconds_to_time for seconds >= 0 given in milliseconds; the format
\* {secs:06.3f} writes two digits, the separator and three digits
seconds_to_time(ms, include_hours, use_comma) ==
    LET hours     == ms \div 3600000
        minutes   == (ms % 3600000) \div 60000
        secs      == ms % 60000
        separator == IF use_comma THEN "," ELSE "."
        sec_str   == ZeroPad(secs \div 1000, 2) \o <<separator>> \o ZeroPad(secs % 1000, 3)
    IN  IF include_hours \/ hours > 0
        THEN ZeroPad(hours, 2) \o <<":">> \o ZeroPad(minutes, 2) \o <<":">> \o sec_str
        ELSE ZeroPad(minutes, 2) \o <<":">> \o sec_str

-----------------------------------------------------------------------------
(* get_transcript.py: _parse_vtt *)

\* Seconds that come from outside (a service, a word list) count ticks of a
\* tenth of a millisecond; round(x, 3) turns them into whole milliseconds.
\* The inputs of the model hold no tick value that ends in 5 (there the
\* binary value of the float decides the direction).
Round3(ticks) == (ticks + 5) \div 10

\* \d{1,2}(?::\d{2}){1,2}\.\d{1,3} matched at s[i]: the position after the
\* match, or 0 when there is none.  The digits before a colon and the groups
\* before the point are fixed by the text; the last \d{1,3} takes up to three.
MatchStamp(s, i) ==
    LET d  == DigitsAt(s, i)
        j  == i + d
        g1 == CharAt(s, j) = ":" /\ IsDigit(CharAt(s, j + 1)) /\ IsDigit(CharAt(s, j + 2))
        g2 == CharAt(s, j + 3) = ":" /\ IsDigit(CharAt(s, j + 4)) /\ IsDigit(CharAt(s, j + 5))
        k  == IF g2 THEN j + 6 ELSE j + 3
        f  == DigitsAt(s, k + 1)
    IN  IF d \in {1, 2} /\ g1 /\ CharAt(s, k) = "." /\ f >= 1
        THEN k + 1 + (IF f > 3 THEN 3 ELSE f)
        ELSE 0

\* timestamp_pattern.match(s): stamp, \s*-->\s*, stamp, anchored at the start
\* of s only; the two groups are the stamps
timestamp_pattern_match(s) ==
    LET e1 == MatchStamp(s, 1)
        a  == SkipSpace(s, e1)
        ar == CharAt(s, a) = "-" /\ CharAt(s, a + 1) = "-" /\ CharAt(s, a + 2) = ">"
        b  == SkipSpace(s, a + 3)
        e2 == MatchStamp(s, b)
    IN  IF e1 > 0 /\ ar /\ e2 > 0
        THEN [matched |-> TRUE, start_str |-> SubSeq(s, 1, e1 - 1),
              end_str |-> SubSeq(s, b, e2 - 1)]
        ELSE [matched |-> FALSE, start_str |-> <<>>, end_str |-> <<>>]

\* re.sub(r'<[^>]+>', '', line): a tag opens at a "<" whose next character is
\* not ">" and runs to the first ">" after it
RECURSIVE StripTags(_)
StripTags(line) ==
    IF line = <<>> THEN <<>>
    ELSE LET closes == {k \in 3..Len(line) : line[k] = ">"}
             tag    == line[1] = "<" /\ Len(line) >= 3 /\ line[2] # ">" /\ closes # {}
         IN  IF tag
             THEN LET k == CHOOSE n \in closes : \A m \in closes : n <= m
                  IN  StripTags(SubSeq(line, k + 1, Len(line)))
             ELSE <<Head(line)>> \o StripTags(Tail(line))

IsCueText(line) ==
    Strip(line) # <<>> /\ ~timestamp_pattern_match(Strip(line)).matched

\* the inner while: the index of the first line from i on that is blank or a
\* timestamp line, or Len(lines) + 1
RECURSIVE CueEnd(_, _)
CueEnd(lines, i) ==
    IF i <= Len(lines) /\ IsCueText(lines[i]) THEN CueEnd(lines, i + 1) ELSE i

\* text_lines: lines[i..j-1] stripped, their tags removed, the empty ones left out
RECURSIVE CueTextLines(_, _, _)
CueTextLines(lines, i, j) ==
    IF i >= j THEN <<>>
    ELSE LET line == StripTags(Strip(lines[i]))
         IN  (IF line # <<>> THEN <<line>> ELSE <<>>) \o CueTextLines(lines, i + 1, j)

\* the emission test with every earlier segment compared, not only the last
EmitsCueGlobal(text, subtitles) ==
    text # <<>> /\ \A k \in 1..Len(subtitles) : text # subtitles[k].text

\* the emission test without the comparison
EmitsCueAlways(text, subtitles) ==
    text # <<>>

\* the emission test of line 285
EmitsCue(text, subtitles) ==
    text # <<>> /\ (subtitles = <<>> \/ text # subtitles[Len(subtitles)].text)

\* the outer while from line i with the list built so far
RECURSIVE ParseVttFrom(_, _, _)
ParseVttFrom(lines, i, subtitles) ==
    IF i > Len(lines) THEN subtitles
    ELSE LET match == timestamp_pattern_match(Strip(lines[i]))
         IN  IF match.matched
             THEN LET start == Round3(10 * time_to_seconds(match.start_str).ms)
                      end   == Round3(10 * time_to_seconds(match.end_str).ms)
                      j     == CueEnd(lines, i + 1)
                      text  == Strip(Join(<<" ">>, CueTextLines(lines, i + 1, j)))
                  IN  ParseVttFrom(lines, j,
                          IF EmitsCue(text, subtitles)
                          THEN Append(subtitles, [start |-> start, end |-> end, text |-> text])
                          ELSE subtitles)
             ELSE ParseVttFrom(lines, i + 1, subtitles)

\* content is the list content.split('\n')
_parse_vtt(lines) == ParseVttFrom(lines, 1, <<>>)

-----------------------------------------------------------------------------
(* get_transcript.py: _words_to_subtitles *)

IsSuffix(t, s) == Len(t) <= Len(s) /\ SubSeq(s, Len(s) - Len(t) + 1, Len(s)) = t

\* str.rstrip(chars)
RECURSIVE RStripChars(_, _)
RStripChars(s, chars) ==
    IF s # <<>> /\ s[Len(s)] \in chars
    THEN RStripChars(SubSeq(s, 1, Len(s) - 1), chars) ELSE s

\* line 440; the full-width marks are written with their ASCII names
sentence_endings == {".", "?", "!", "fw.", "fw?", "fw!"}

EndsSentence(punctuated_word) ==
    LET pw == RStripChars(punctuated_word, {"\"", "'", ")", ">"})
    IN  pw # <<>> /\ pw[Len(pw)] \in sentence_endings

\* the test of lines 452-454 without the count of the words
ClosesWithoutCount(n_words, duration, punctuated_word, max_words, max_duration) ==
    duration >= max_duration \/ EndsSentence(punctuated_word)

\* the test of lines 452-454 without the end of a sentence
ClosesWithoutSentence(n_words, duration, punctuated_word, max_words, max_duration) ==
    n_words >= max_words \/ duration >= max_duration

\* the test of lines 452-454 without the duration
ClosesWithoutDuration(n_words, duration, punctuated_word, max_words, max_duration) ==
    n_words >= max_words \/ EndsSentence(punctuated_word)

\* lines 452-454: whether the pending segment ends with this word
Closes(n_words, duration, punctuated_word, max_words, max_duration) ==
    \/ n_words >= max_words
    \/ duration >= max_duration
    \/ EndsSentence(punctuated_word)

\* the pending words dropped at the end of the input
RemainderDropped(words, subtitles, current_words, current_start) == subtitles

\* lines 464-469: the words still pending when the input ends
Remainder(words, subtitles, current_words, current_start) ==
    IF current_words # <<>> /\ current_start # -1
    THEN Append(subtitles, [start |-> Round3(current_start),
                            end |-> Round3(words[Len(words)].end),
                            text |-> Join(<<" ">>, current_words)])
    ELSE subtitles

\* the loop of lines 442-461 from word i on, with the segments closed so far
\* (subtitles) and the pending one (current_words, current_start; a
\* current_start of -1 is None); then lines 464-469.  Times of words are ticks.
RECURSIVE WordsLoop(_, _, _, _, _, _, _)
WordsLoop(words, i, max_words, max_duration, subtitles, current_words, current_start) ==
    IF i > Len(words)
    THEN Remainder(words, subtitles, current_words, current_start)
    ELSE LET word     == words[i]
             start    == IF current_start = -1 THEN word.start ELSE current_start
             cw       == Append(current_words, word.punctuated_word)
             duration == word.end - start
         IN  IF Closes(Len(cw), duration, word.punctuated_word, max_words, max_duration)
             THEN WordsLoop(words, i + 1, max_words, max_duration,
                      Append(subtitles, [start |-> Round3(start), end |-> Round3(word.end),
                                         text |-> Join(<<" ">>, cw)]),
                      <<>>, -1)
             ELSE WordsLoop(words, i + 1, max_words, max_duration, subtitles, cw, start)

_words_to_subtitles(words, max_words, max_duration) ==
    WordsLoop(words, 1, max_words, max_duration, <<>>, <<>>, -1)

\* the defaults of line 434: 12 words, 5.0 seconds
DefaultMaxWords == 12

DefaultMaxDurationTicks == 50000

-----------------------------------------------------------------------------
(* get_transcript.py: what the adapters return, raise and write out *)

\* an optional dict: None, or the dict of lines 155-161, 235-241, 417-423
None ==
    [source |-> "None", subtitles |-> <<>>, subtitle_count |-> 0,
     total_duration |-> 0, language |-> ""]

\* an exception (type "" is no exception), named by the line that raises it
\* or, for one that comes out of a library, by at = 0; text is what str(e)
\* gives beyond the fixed words of the message
NoException == [type |-> "", at |-> 0, text |-> <<>>]

Exception(type, at, text) == [type |-> type, at |-> at, text |-> text]

\* one line written to standard output, named by the line that writes it;
\* text is what the line interpolates
Message(at, text) == [at |-> at, text |-> text]

\* what one call of an adapter did: its return value, the exception that left
\* it, the lines it wrote, and the adapters it called itself
Outcome(result, exception, prints, inner) ==
    [result |-> result, raised |-> exception, prints |-> prints, inner |-> inner]

\* one adapter call as the history keeps it
CallEntry(adapter, out) ==
    [adapter |-> adapter,
     gave |-> IF out.raised # NoException THEN "raised"
              ELSE IF out.result # None THEN "result" ELSE "none",
     result |-> out.result]

\* the outcome of a call that ends by returning what a call of adapter gave
Within(adapter, out) ==
    Outcome(out.result, out.raised, out.prints, <<CallEntry(adapter, out)>>)

Returns(result, prints) == Outcome(result, NoException, prints, <<>>)

Raises(exception, prints) == Outcome(None, exception, prints, <<>>)

\* no handler: the exception leaves the adapter
ExceptReraises(body, at) == body

\* except Exception as e: a message with str(e), then return None
Except(body, at) ==
    IF body.raised # NoException
    THEN Outcome(None, NoException,
                 body.prints \o <<Message(at, body.raised.text)>>, body.inner)
    ELSE body

\* s.replace(old, new) for a non-empty old: occurrences are taken from the
\* left and do not overlap
RECURSIVE Replace(_, _, _)
Replace(s, old, new) ==
    IF Len(s) < Len(old) THEN s
    ELSE IF SubSeq(s, 1, Len(old)) = old
         THEN new \o Replace(SubSeq(s, Len(old) + 1, Len(s)), old, new)
         ELSE <<Head(s)>> \o Replace(Tail(s), old, new)

\* old in s
Contains(s, old) ==
    \E k \in 0..(Len(s) - Len(old)) : SubSeq(s, k + 1, k + Len(old)) = old

-----------------------------------------------------------------------------
(* get_transcript.py: _try_youtube_transcript_api *)

\* lines 130-134 and 144-148 for one snippet or entry (times in ticks; an
\* entry without a duration has duration 0)
SnippetToSubtitle(c) ==
    [start |-> Round3(c.start), end |-> Round3(c.start + c.duration), text |-> Strip(c.text)]

\* lines 155-161
YoutubeApiResult(subtitles, lang) ==
    [source |-> "youtube-api", subtitles |-> subtitles,
     subtitle_count |-> Len(subtitles),
     total_duration |-> Round3(10 * subtitles[Len(subtitles)].end),
     language |-> lang]

\* lines 120-161 without the handler of line 163.  api.v1 is what
\* YouTubeTranscriptApi().fetch does and api.v0 what the static
\* get_transcript does: [kind |-> "ok", cues |-> ...] or an exception kind.
YoutubeApiFetched(lang, fetched) ==
    IF fetched.kind # "ok" THEN Raises(Exception(fetched.kind, 0, fetched.text), <<>>)
    ELSE IF fetched.cues = <<>> THEN Returns(None, <<>>)
    ELSE Returns(YoutubeApiResult([k \in 1..Len(fetched.cues) |->
                                      SnippetToSubtitle(fetched.cues[k])], lang), <<>>)

YoutubeApiBody(lang, api) ==
    YoutubeApiFetched(lang, IF api.v1.kind \in {"TypeError", "AttributeError"}
                            THEN api.v0 ELSE api.v1)

_try_youtube_transcript_api(video_id, lang, api) ==
    IF ~api.installed THEN Returns(None, <<Message(116, <<>>), Message(117, <<>>)>>)
    ELSE Except(YoutubeApiBody(lang, api), 164)

-----------------------------------------------------------------------------
(* get_transcript.py: _try_ytdlp_subtitles and _try_ytdlp_download_subtitles *)

\* total_duration taken from the first segment
YtdlpResultFirstEnd(subtitles, lang) ==
    [source |-> "yt-dlp", subtitles |-> subtitles,
     subtitle_count |-> Len(subtitles),
     total_duration |-> Round3(10 * subtitles[1].end),
     language |-> lang]

\* lines 235-241
YtdlpResult(subtitles, lang) ==
    [source |-> "yt-dlp", subtitles |-> subtitles,
     subtitle_count |-> Len(subtitles),
     total_duration |-> Round3(10 * subtitles[Len(subtitles)].end),
     language |-> lang]

\* lines 225-241 without the handler of line 243.  file is what open and read
\* do: [readable |-> TRUE, lines |-> ...] or an error with its text.
\* lines 230-241
YtdlpParsed(subtitles, lang) ==
    IF subtitles = <<>> THEN Returns(None, <<>>)
    ELSE Returns(YtdlpResult(subtitles, lang), <<>>)

YtdlpSubtitlesBody(file, lang) ==
    IF ~file.readable THEN Raises(Exception("OSError", 0, file.text), <<>>)
    ELSE YtdlpParsed(_parse_vtt(file.lines), lang)

_try_ytdlp_subtitles(file, lang) ==
    Except(YtdlpSubtitlesBody(file, lang), 244)

\* lines 206-212: the first file whose name holds .<language>., else the first
target_file(vtt_files, lang) ==
    IF \E k \in 1..Len(vtt_files) : vtt_files[k].lang = lang
    THEN vtt_files[CHOOSE k \in 1..Len(vtt_files) :
                       /\ vtt_files[k].lang = lang
                       /\ \A m \in 1..(k - 1) : vtt_files[m].lang # lang]
    ELSE vtt_files[1]

\* lines 178-215 without the handler of line 217.  dl is what the download
\* leaves in the temporary directory: [kind |-> "ok", vtt_files |-> ...], each
\* file with the language tag of its name, or an exception.
YtdlpDownloadBody(lang, dl) ==
    IF dl.kind # "ok" THEN Raises(Exception(dl.kind, 0, dl.text), <<>>)
    ELSE IF dl.vtt_files = <<>> THEN Returns(None, <<Message(202, <<>>)>>)
    ELSE Within("_try_ytdlp_subtitles",
                _try_ytdlp_subtitles(target_file(dl.vtt_files, lang), lang))

_try_ytdlp_download_subtitles(video_id, lang, dl) ==
    IF ~dl.installed THEN Returns(None, <<Message(173, <<>>)>>)
    ELSE Except(YtdlpDownloadBody(lang, dl), 218)

-----------------------------------------------------------------------------
(* get_transcript.py: _get_deepgram_api_key, _try_deepgram, _try_deepgram_from_video *)

\* lines 477-501.  src.environ is DEEPGRAM_API_KEY in os.environ (<<>> when
\* unset), src.dotenv whether the dotenv package imports, src.project and
\* src.home the two .env files: [exists |-> ..., key |-> ...].
_get_deepgram_api_key(src) ==
    IF src.environ # <<>> THEN src.environ
    ELSE IF ~src.dotenv THEN <<>>
    ELSE IF src.project.exists /\ src.project.key # <<>> THEN src.project.key
    ELSE IF src.home.exists /\ src.home.key # <<>> THEN src.home.key
    ELSE <<>>

Redacted == <<"*", "*", "*">>

\* lines 426-429
RedactKey(error_msg, api_key) ==
    IF api_key # <<>> /\ Contains(error_msg, api_key)
    THEN Replace(error_msg, api_key, Redacted)
    ELSE error_msg

\* lines 398-402 for one utterance (times in ticks)
UtteranceToSubtitle(utt) ==
    [start |-> Round3(utt.start), end |-> Round3(utt.end), text |-> Strip(utt.transcript)]

\* lines 417-423
DeepgramResult(subtitles, lang) ==
    [source |-> "deepgram", subtitles |-> subtitles,
     subtitle_count |-> Len(subtitles),
     total_duration |-> Round3(10 * subtitles[Len(subtitles)].end),
     language |-> lang]

\* lines 412-423
DeepgramParsed(subtitles, lang) ==
    IF subtitles = <<>> THEN Returns(None, <<Message(361, <<>>)>>)
    ELSE Returns(DeepgramResult(subtitles, lang), <<Message(361, <<>>)>>)

\* lines 359-423 without the handler of line 425.  dg.audio is whether the
\* audio file can be read, dg.response what the transcription request gives:
\* an exception with its text, or utterances and words (words are read only
\* when there are no utterances).
DeepgramBody(lang, dg) ==
    IF ~dg.audio.readable THEN Raises(Exception("OSError", 0, dg.audio.text), <<>>)
    ELSE IF dg.response.kind # "ok"
    THEN Raises(Exception(dg.response.kind, 0, dg.response.text), <<Message(361, <<>>)>>)
    ELSE DeepgramParsed(
             IF dg.response.utterances # <<>>
             THEN [k \in 1..Len(dg.response.utterances) |->
                      UtteranceToSubtitle(dg.response.utterances[k])]
             ELSE _words_to_subtitles(dg.response.words, DefaultMaxWords,
                                      DefaultMaxDurationTicks),
             lang)

\* the handler of lines 425-431
DeepgramExcept(body, api_key) ==
    IF body.raised # NoException
    THEN Returns(None, body.prints \o <<Message(430, RedactKey(body.raised.text, api_key))>>)
    ELSE body

\* dg.sdk: "none" (the package does not import), "client" (DeepgramClient
\* imports and PrerecordedOptions does not) or "full"
_try_deepgram(lang, dg) ==
    IF dg.sdk # "full" THEN Returns(None, <<Message(351, <<>>)>>)
    ELSE IF _get_deepgram_api_key(dg.cred) = <<>> THEN Returns(None, <<Message(356, <<>>)>>)
    ELSE DeepgramExcept(DeepgramBody(lang, dg), _get_deepgram_api_key(dg.cred))

\* extract_audio.py, lines 35-94: what is raised and what becomes of the wav
\* file.  ex.kind is what ffmpeg does: "no_ffmpeg", "failed" (ex.wrote: it
\* had begun to write the output; ex.text: the end of its stderr),
\* "not_generated", "timeout" or "ok".
extract_audio(exists, ex, wav_before) ==
    IF ex.kind = "no_ffmpeg"
    THEN [raised |-> Exception("RuntimeError", 0, <<>>), wav |-> wav_before]
    ELSE IF ~exists
    THEN [raised |-> Exception("FileNotFoundError", 0, <<>>), wav |-> wav_before]
    ELSE IF ex.kind = "failed"
    THEN [raised |-> Exception("RuntimeError", 0, ex.text),
          wav |-> IF ex.wrote THEN "partial" ELSE wav_before]
    ELSE IF ex.kind = "not_generated"
    THEN [raised |-> Exception("RuntimeError", 0, <<>>), wav |-> "absent"]
    ELSE IF ex.kind = "timeout"
    THEN [raised |-> Exception("RuntimeError", 0, <<>>), wav |-> "absent"]
    ELSE [raised |-> NoException, wav |-> "extracted"]

\* lines 332-339: the recognition r on the extracted file, then its removal
RecogniseAndRemove(r, v) ==
    IF ~v.remove
    THEN [out |-> Outcome(None, Exception("OSError", 0, v.remove_text),
                          <<Message(328, <<>>)>> \o r.prints,
                          <<CallEntry("_try_deepgram", r)>>),
          wav |-> "extracted"]
    ELSE [out |-> Outcome(r.result, r.raised,
                          <<Message(328, <<>>)>> \o r.prints \o <<Message(337, <<>>)>>,
                          <<CallEntry("_try_deepgram", r)>>),
          wav |-> "absent"]

\* lines 320-339 without the handler of line 341: the outcome and the wav file.
\* ea is what extract_audio did, v.dg what _try_deepgram meets, v.remove
\* whether os.remove succeeds.
DeepgramFromVideoBody(lang, v, ea) ==
    IF ea.raised # NoException
    THEN [out |-> Raises(ea.raised, <<Message(328, <<>>)>>), wav |-> ea.wav]
    ELSE RecogniseAndRemove(_try_deepgram(lang, v.dg), v)

\* the handler of lines 341-343
FromVideoExcept(body) == [out |-> Except(body.out, 342), wav |-> body.wav]

\* without the test of the key at lines 308-312
FromVideoWithoutKeyCheck(path, lang, v, exists, wav_before) ==
    IF v.dg.sdk = "none"
    THEN [out |-> Returns(None, <<Message(303, <<>>), Message(304, <<>>)>>),
          wav |-> wav_before]
    ELSE IF ~exists
    THEN [out |-> Returns(None, <<Message(315, path)>>), wav |-> wav_before]
    ELSE FromVideoExcept(DeepgramFromVideoBody(lang, v,
                             extract_audio(exists, v.extract, wav_before)))

_try_deepgram_from_video(path, lang, v, exists, wav_before) ==
    IF v.dg.sdk = "none"
    THEN [out |-> Returns(None, <<Message(303, <<>>), Message(304, <<>>)>>),
          wav |-> wav_before]
    ELSE IF _get_deepgram_api_key(v.dg.cred) = <<>>
    THEN [out |-> Returns(None, <<Message(310, <<>>), Message(311, <<>>)>>),
          wav |-> wav_before]
    ELSE IF ~exists
    THEN [out |-> Returns(None, <<Message(315, path)>>), wav |-> wav_before]
    ELSE FromVideoExcept(DeepgramFromVideoBody(lang, v,
                             extract_audio(exists, v.extract, wav_before)))

-----------------------------------------------------------------------------
(* utils.py: validate_url and extract_video_id, on the shape of the text *)

\* What video_url_or_id is: its form ("empty"; "watch", "embed", "shorts",
\* "youtu.be": an http(s) URL of that YouTube form; "bare": no URL; "other":
\* any other URL) and the eleven characters where the id stands ("ascii11":
\* of [a-zA-Z0-9_-]; "unicode11": of [\w-] with a letter outside ASCII;
\* "short": fewer than eleven; "ascii11nl": eleven of [a-zA-Z0-9_-] and then
\* a newline that ends the text).
UrlForms == {"watch", "embed", "shorts", "youtu.be"}

\* lines 171-197: the id is tested with [\w-]{11}
validate_url(url) ==
    url.form \in UrlForms /\ url.id \in {"ascii11", "unicode11", "ascii11nl"}

\* lines 219-225: the id is searched with [a-zA-Z0-9_-]{11}; FALSE is the
\* ValueError of line 225
extract_video_id_found(url) ==
    url.form \in UrlForms /\ url.id \in {"ascii11", "ascii11nl"}

\* get_transcript.py, line 72: re.match(r'^[a-zA-Z0-9_-]{11}$', ...), where $
\* also matches before a newline that ends the text
LooksLikeVideoId(text) ==
    text.form = "bare" /\ text.id \in {"ascii11", "ascii11nl"}

-----------------------------------------------------------------------------
(* The texts _parse_vtt is run on: an optional preamble, then up to MaxCues  *)
(* cue blocks.  Cue k runs from CueStartMs(k) to CueEndMs(k); its stamp line *)
(* is written with seconds_to_time.                                          *)

MaxCues == 4

CueStartMs(k) == IF k = 1 THEN 1000 ELSE 2500 * k - 2000

CueEndMs(k) == CueStartMs(k + 1)

Arrow == <<" ", "-", "-", ">", " ">>

TextA == <<"a">>

TextB == <<"b">>

TaggedA == <<"<", "c", ">", "a", "<", "/", "c", ">">>

TaggedBlank == <<"<", "i", ">", " ", "<", "/", "i", ">">>

\* the kinds of cue block: the form of the stamp line, the lines under it,
\* and the text a reader of the track takes the cue to say
BlockKinds ==
    << [form |-> "hms",      body |-> <<TextA, <<>>>>,        text |-> TextA],
       [form |-> "hms",      body |-> <<TextB, <<>>>>,        text |-> TextB],
       [form |-> "hms",      body |-> << <<>> >>,             text |-> <<>>],
       [form |-> "ms",       body |-> <<TaggedA>>,            text |-> TextA],
       [form |-> "hms",      body |-> <<TextA, TextB, <<>>>>, text |-> <<"a", " ", "b">>],
       [form |-> "reversed", body |-> <<TextB, <<>>>>,        text |-> TextB],
       [form |-> "hms",      body |-> <<TaggedBlank, <<>>>>,  text |-> <<>>] >>

\* the times cue k of kind b is stamped with
BlockStartMs(k, b) ==
    IF BlockKinds[b].form = "reversed" THEN CueEndMs(k) + 1000 ELSE CueStartMs(k)

BlockEndMs(k, b) ==
    IF BlockKinds[b].form = "reversed" THEN CueStartMs(k) ELSE CueEndMs(k)

StampLine(k, b) ==
    LET hours == BlockKinds[b].form # "ms"
    IN  seconds_to_time(BlockStartMs(k, b), hours, FALSE) \o Arrow
            \o seconds_to_time(BlockEndMs(k, b), hours, FALSE)

\* nothing, or a header followed by a cue whose stamp line is malformed
Preambles ==
    << <<>>,
       << <<"W", "E", "B", "V", "T", "T">>, <<>>,
          <<"0", "0", ":", "0", "1", " ", "-", "-", ">", " ", "x">>, TextA, <<>> >> >>

RECURSIVE BlockLines(_, _)
BlockLines(cues, k) ==
    IF k > Len(cues) THEN <<>>
    ELSE <<StampLine(k, cues[k])>> \o BlockKinds[cues[k]].body \o BlockLines(cues, k + 1)

VttText(pre, cues) == Preambles[pre] \o BlockLines(cues, 1)

CueLists == UNION {[1..n -> 1..Len(BlockKinds)] : n \in 0..MaxCues}


-----------------------------------------------------------------------------
(* What get_transcript is called with, and what the world around it does *)

MaxErrLen == 2

Languages == {"en", "zh"}

Identifiers ==
    { [form |-> "empty", id |-> "short"],
      [form |-> "watch", id |-> "ascii11"],
      [form |-> "watch", id |-> "unicode11"],
      [form |-> "watch", id |-> "short"],
      [form |-> "bare", id |-> "ascii11"],
      [form |-> "bare", id |-> "unicode11"],
      [form |-> "bare", id |-> "ascii11nl"],
      [form |-> "other", id |-> "ascii11"] }

\* a path argument: <<>> is None
PathsOf(name) == {<<>>, <<name>>}

Keys == {<<"k", "x">>, <<"k", "k">>}

NoEnvFile == [exists |-> FALSE, key |-> <<>>]

EnvFile(key) == [exists |-> TRUE, key |-> key]

Credentials ==
    {[environ |-> k, dotenv |-> FALSE, project |-> NoEnvFile, home |-> NoEnvFile] : k \in Keys}
    \cup
    { [environ |-> <<>>, dotenv |-> FALSE, project |-> EnvFile(<<"k", "x">>), home |-> NoEnvFile],
      [environ |-> <<>>, dotenv |-> TRUE, project |-> EnvFile(<<"k", "x">>), home |-> NoEnvFile],
      [environ |-> <<>>, dotenv |-> TRUE, project |-> EnvFile(<<>>), home |-> EnvFile(<<"k", "k">>)],
      [environ |-> <<>>, dotenv |-> TRUE, project |-> NoEnvFile, home |-> NoEnvFile] }

\* the texts an exception or the end of a stderr can carry, over the
\* characters the keys are written with
ErrTexts == UNION {[1..n -> {"k", "x"}] : n \in 1..MaxErrLen}

\* what a service call gives: a list, or an exception
Gives(cues) == [kind |-> "ok", cues |-> cues, text |-> <<>>]

Fails(kind, text) == [kind |-> kind, cues |-> <<>>, text |-> text]

\* cue lists of the transcript service (start and duration in ticks)
ApiCueLists ==
    { <<>>,
      << [start |-> 0, duration |-> 15004, text |-> <<" ", "a", " ">>] >>,
      << [start |-> 10000, duration |-> 20000, text |-> TextA],
         [start |-> 30006, duration |-> 9996, text |-> TextB] >>,
      << [start |-> 0, duration |-> 0, text |-> <<" ">>] >> }

ApiAnswers == {Gives(c) : c \in ApiCueLists} \cup {Fails("Exception", <<"x">>)}

YoutubeApis ==
    {[installed |-> FALSE, v1 |-> Gives(<<>>), v0 |-> Gives(<<>>)]}
    \cup {[installed |-> TRUE, v1 |-> a, v0 |-> Gives(<<>>)] : a \in ApiAnswers}
    \cup {[installed |-> TRUE, v1 |-> Fails(k, <<>>), v0 |-> a] :
              k \in {"TypeError", "AttributeError"}, a \in ApiAnswers}

Unreadable(text) == [readable |-> FALSE, lines |-> <<>>, text |-> text, lang |-> "en"]

VttFile(lang, pre, cues) ==
    [readable |-> TRUE, lines |-> VttText(pre, cues), text |-> <<>>, lang |-> lang]

\* what can stand at subtitle_file
SubtitleFiles ==
    { Unreadable(<<"x">>), VttFile("en", 1, <<>>), VttFile("en", 2, <<1, 1, 2>>),
      VttFile("en", 1, <<3>>), VttFile("en", 1, <<6, 4>>) }

\* what yt-dlp leaves in the temporary directory
VttDirectories ==
    { <<>>,
      <<VttFile("en", 2, <<1, 1, 2>>)>>,
      <<VttFile("zh", 1, <<6, 4>>), VttFile("en", 2, <<1, 1, 2>>)>>,
      <<VttFile("en-US", 1, <<3>>)>>,
      <<Unreadable(<<"x">>)>> }

Downloads ==
    {[installed |-> FALSE, kind |-> "ok", text |-> <<>>, vtt_files |-> <<>>],
     [installed |-> TRUE, kind |-> "DownloadError", text |-> <<"x">>, vtt_files |-> <<>>]}
    \cup {[installed |-> TRUE, kind |-> "ok", text |-> <<>>, vtt_files |-> d] :
              d \in VttDirectories}

\* what the transcription request gives (times in ticks)
Utterances ==
    { << [start |-> 0, end |-> 12004, transcript |-> <<" ", "a">>] >>,
      << [start |-> 0, end |-> 10000, transcript |-> TextA],
         [start |-> 10000, end |-> 25006, transcript |-> <<" ">>] >> }

WordLists ==
    { <<>>,
      << [start |-> 0, end |-> 3000, punctuated_word |-> TextA],
         [start |-> 3000, end |-> 6004, punctuated_word |-> <<"b", ".">>],
         [start |-> 6004, end |-> 9000, punctuated_word |-> TextA] >> }

Transcriptions ==
    {[kind |-> "Exception", text |-> t, utterances |-> <<>>, words |-> <<>>] : t \in ErrTexts}
    \cup {[kind |-> "ok", text |-> <<>>, utterances |-> u, words |-> <<>>] : u \in Utterances}
    \cup {[kind |-> "ok", text |-> <<>>, utterances |-> <<>>, words |-> w] : w \in WordLists}

\* what _try_deepgram meets when it reads the file at path
Deepgrams(path, where) ==
    {[sdk |-> k, cred |-> where, audio |-> [readable |-> TRUE, text |-> <<>>],
      response |-> [kind |-> "ok", text |-> <<>>, utterances |-> <<>>, words |-> <<>>]] :
         k \in {"none", "client"}}
    \cup {[sdk |-> "full", cred |-> where, audio |-> [readable |-> FALSE, text |-> path],
           response |-> [kind |-> "ok", text |-> <<>>, utterances |-> <<>>, words |-> <<>>]]}
    \cup {[sdk |-> "full", cred |-> where, audio |-> [readable |-> TRUE, text |-> <<>>],
           response |-> r] : r \in Transcriptions}

Extractions ==
    {[kind |-> k, wrote |-> FALSE, text |-> <<>>] :
         k \in {"no_ffmpeg", "not_generated", "timeout", "ok"}}
    \cup {[kind |-> "failed", wrote |-> w, text |-> t] : w \in BOOLEAN, t \in ErrTexts}

\* what _try_deepgram_from_video meets: ffmpeg fails (the transcription is
\* never asked for), or it succeeds and the wav file is or is not removed
RecognisedNothing(where) ==
    [sdk |-> "full", cred |-> where, audio |-> [readable |-> TRUE, text |-> <<>>],
     response |-> [kind |-> "ok", text |-> <<>>, utterances |-> <<>>, words |-> <<>>]]

VideoRuns(where) ==
    {[dg |-> RecognisedNothing(where), extract |-> e, remove |-> TRUE, remove_text |-> <<>>] :
         e \in {x \in Extractions : x.kind # "ok"}}
    \cup {[dg |-> d, extract |-> [kind |-> "ok", wrote |-> FALSE, text |-> <<>>],
            remove |-> TRUE, remove_text |-> <<>>] : d \in Deepgrams(<<"w">>, where)}
    \cup {[dg |-> d, extract |-> [kind |-> "ok", wrote |-> FALSE, text |-> <<>>],
            remove |-> FALSE, remove_text |-> <<"w">>] : d \in Deepgrams(<<"w">>, where)}

-----------------------------------------------------------------------------
(* get_transcript.py: get_transcript, one action for each stretch of it that *)
(* ends in a return, a raise or the next layer                               *)

VttIdle ==
    /\ vtt_cues = <<>>
    /\ content = <<>>
    /\ vtt_out = <<>>
    /\ vtt_pc = "idle"

CallIdle ==
    /\ pc = "idle"
    /\ video_url_or_id = [form |-> "empty", id |-> "short"]
    /\ language = "en"
    /\ subtitle_file = <<>>
    /\ audio_file = <<>>
    /\ video_path = <<>>
    /\ video_exists = FALSE
    /\ wav = "absent"
    /\ cred = [environ |-> <<>>, dotenv |-> FALSE, project |-> NoEnvFile, home |-> NoEnvFile]
    /\ calls = <<>>
    /\ log = <<>>
    /\ returned = None
    /\ raised = NoException

WordsIdle ==
    /\ w_words = <<>>
    /\ w_max_words = DefaultMaxWords
    /\ w_max_duration = DefaultMaxDurationTicks
    /\ w_out = <<>>
    /\ w_pc = "idle"

TimeIdle ==
    /\ t_seconds = 0
    /\ t_include_hours = TRUE
    /\ t_text = <<"0">>
    /\ t_formatted = <<>>
    /\ t_back = ValueError
    /\ t_parsed = ValueError
    /\ t_reparsed = ValueError
    /\ t_pc = "idle"

Init == CallIdle /\ VttIdle /\ WordsIdle /\ TimeIdle

\* the call: its arguments, and the files and the credential it will find
Call ==
    /\ pc = "idle"
    /\ video_url_or_id' \in Identifiers
    /\ language' \in Languages
    /\ subtitle_file' \in PathsOf("s")
    /\ audio_file' \in PathsOf("u")
    /\ video_path' \in PathsOf("v")
    /\ video_exists' \in (IF video_path' = <<>> THEN {FALSE} ELSE BOOLEAN)
    /\ wav' \in (IF video_exists' THEN {"absent", "preexisting"} ELSE {"absent"})
    /\ cred' \in Credentials
    /\ pc' = "start"
    /\ UNCHANGED <<calls, log, returned, raised>>

\* what get_transcript does with an adapter's outcome a: the exception leaves
\* the call, or a result is returned, or neither (then on_none decides)
Propagates(a) == a.raised # NoException

\* if result: taken even for None
SucceedsAlways(a) == a.raised = NoException

Succeeds(a) == a.raised = NoException /\ a.result # None

Record(adapter, a) == <<CallEntry(adapter, a)>> \o a.inner

\* return result / an exception leaving get_transcript
Return(result) ==
    /\ returned' = result
    /\ raised' = NoException
    /\ pc' = "done"

Raise(exception) ==
    /\ returned' = None
    /\ raised' = exception
    /\ pc' = "done"

\* the chain going on after a result instead of returning it
AfterAdapterNoShortCircuit(adapter, a, intro, success, next_pc, failure) ==
    /\ calls' = calls \o Record(adapter, a)
    /\ IF Propagates(a)
       THEN Raise(a.raised) /\ log' = log \o intro \o a.prints
       ELSE IF Succeeds(a) /\ next_pc = "done"
       THEN Return(a.result) /\ log' = log \o intro \o a.prints \o success
       ELSE IF next_pc = "done"
       THEN Raise(failure) /\ log' = log \o intro \o a.prints
       ELSE /\ pc' = next_pc
            /\ log' = log \o intro \o a.prints
            /\ UNCHANGED <<returned, raised>>

\* the chain going from the first layer to the third
AfterAdapterSkipsSubtitles(adapter, a, intro, success, next_pc, failure) ==
    /\ calls' = calls \o Record(adapter, a)
    /\ IF Propagates(a)
       THEN Raise(a.raised) /\ log' = log \o intro \o a.prints
       ELSE IF Succeeds(a)
       THEN Return(a.result) /\ log' = log \o intro \o a.prints \o success
       ELSE IF next_pc = "done"
       THEN Raise(failure) /\ log' = log \o intro \o a.prints
       ELSE /\ pc' = "layer3"
            /\ log' = log \o intro \o a.prints
            /\ UNCHANGED <<returned, raised>>

\* the same adapter tried again after it gave nothing
AfterAdapterRetries(adapter, a, intro, success, next_pc, failure) ==
    /\ calls' = calls \o Record(adapter, a)
    /\ IF Propagates(a)
       THEN Raise(a.raised) /\ log' = log \o intro \o a.prints
       ELSE IF Succeeds(a)
       THEN Return(a.result) /\ log' = log \o intro \o a.prints \o success
       ELSE IF next_pc = "done"
       THEN Raise(failure) /\ log' = log \o intro \o a.prints
       ELSE /\ pc' = pc
            /\ log' = log \o intro \o a.prints
            /\ UNCHANGED <<returned, raised>>

\* result = adapter(...); if result: return result; then with next_pc = "done"
\* the raise of failure, else on to next_pc.  intro is written before the
\* call and success before the return.
AfterAdapter(adapter, a, intro, success, next_pc, failure) ==
    /\ calls' = calls \o Record(adapter, a)
    /\ IF Propagates(a)
       THEN Raise(a.raised) /\ log' = log \o intro \o a.prints
       ELSE IF Succeeds(a)
       THEN Return(a.result) /\ log' = log \o intro \o a.prints \o success
       ELSE IF next_pc = "done"
       THEN Raise(failure) /\ log' = log \o intro \o a.prints
       ELSE /\ pc' = next_pc
            /\ log' = log \o intro \o a.prints
            /\ UNCHANGED <<returned, raised>>

\* lines 48-53
UseAudioFile ==
    /\ pc = "start"
    /\ audio_file # <<>>
    /\ \E dg \in Deepgrams(audio_file, cred) :
          AfterAdapter("_try_deepgram", _try_deepgram(language, dg),
                       <<Message(49, <<>>)>>, <<>>, "done",
                       Exception("RuntimeError", 53, <<>>))
    /\ UNCHANGED <<video_url_or_id, language, subtitle_file, audio_file, video_path,
                   video_exists, wav, cred>>

\* subtitle_file looked at whether or not audio_file is given
UseSubtitleFileFirst ==
    /\ pc = "start"
    /\ subtitle_file # <<>>
    /\ \E file \in SubtitleFiles :
          AfterAdapter("_try_ytdlp_subtitles", _try_ytdlp_subtitles(file, language),
                       <<Message(57, subtitle_file)>>, <<>>, "done",
                       Exception("RuntimeError", 61, subtitle_file))
    /\ UNCHANGED <<video_url_or_id, language, subtitle_file, audio_file, video_path,
                   video_exists, wav, cred>>

\* lines 56-61
UseSubtitleFile ==
    /\ pc = "start"
    /\ audio_file = <<>>
    /\ subtitle_file # <<>>
    /\ \E file \in SubtitleFiles :
          AfterAdapter("_try_ytdlp_subtitles", _try_ytdlp_subtitles(file, language),
                       <<Message(57, subtitle_file)>>, <<>>, "done",
                       Exception("RuntimeError", 61, subtitle_file))
    /\ UNCHANGED <<video_url_or_id, language, subtitle_file, audio_file, video_path,
                   video_exists, wav, cred>>

\* lines 64-76: the ValueError of line 65, of extract_video_id (line 69) or
\* of line 73, or on to the first layer
ExtractVideoId ==
    /\ pc = "start"
    /\ audio_file = <<>>
    /\ subtitle_file = <<>>
    /\ IF video_url_or_id.form = "empty"
       THEN Raise(Exception("ValueError", 65, <<>>)) /\ log' = log
       ELSE IF validate_url(video_url_or_id)
       THEN IF extract_video_id_found(video_url_or_id)
            THEN pc' = "layer1" /\ log' = log \o <<Message(76, <<>>)>>
                    /\ UNCHANGED <<returned, raised>>
            ELSE Raise(Exception("ValueError", 69, <<>>)) /\ log' = log
       ELSE IF LooksLikeVideoId(video_url_or_id)
       THEN pc' = "layer1" /\ log' = log \o <<Message(76, <<>>)>>
               /\ UNCHANGED <<returned, raised>>
       ELSE Raise(Exception("ValueError", 73, <<>>)) /\ log' = log
    /\ UNCHANGED <<video_url_or_id, language, subtitle_file, audio_file, video_path,
                   video_exists, wav, cred, calls>>

\* lines 78-83
Layer1 ==
    /\ pc = "layer1"
    /\ \E api \in YoutubeApis :
          AfterAdapter("_try_youtube_transcript_api",
                       _try_youtube_transcript_api("id", language, api),
                       <<Message(79, <<>>)>>, <<Message(82, <<>>)>>, "layer2", NoException)
    /\ UNCHANGED <<video_url_or_id, language, subtitle_file, audio_file, video_path,
                   video_exists, wav, cred>>

\* lines 85-90
Layer2 ==
    /\ pc = "layer2"
    /\ \E dl \in Downloads :
          AfterAdapter("_try_ytdlp_download_subtitles",
                       _try_ytdlp_download_subtitles("id", language, dl),
                       <<Message(86, <<>>)>>, <<Message(89, <<>>)>>, "layer3", NoException)
    /\ UNCHANGED <<video_url_or_id, language, subtitle_file, audio_file, video_path,
                   video_exists, wav, cred>>

\* line 95 without os.path.exists
TriesVideoUnchecked == video_path # <<>>

\* line 95
TriesVideo == video_path # <<>> /\ video_exists

\* lines 97-108 with what _try_deepgram_from_video did
AfterVideo(run) ==
    /\ wav' = run.wav
    /\ AfterAdapter("_try_deepgram_from_video", run.out,
                    <<Message(93, <<>>), Message(96, video_path)>>, <<Message(99, <<>>)>>,
                    "done", Exception("RuntimeError", 102, <<>>))

\* lines 92-108
Layer3 ==
    /\ pc = "layer3"
    /\ IF TriesVideo
       THEN \E v \in VideoRuns(cred) :
               AfterVideo(_try_deepgram_from_video(video_path, language, v,
                                                   video_exists, wav))
       ELSE /\ Raise(Exception("RuntimeError", 102, <<>>))
            /\ log' = log \o <<Message(93, <<>>)>>
            /\ UNCHANGED <<calls, wav>>
    /\ UNCHANGED <<video_url_or_id, language, subtitle_file, audio_file, video_path,
                   video_exists, cred>>

Next ==
    \/ (Call /\ UNCHANGED <<vtt_vars, words_vars, time_vars>>)
    \/ (UseAudioFile /\ UNCHANGED <<vtt_vars, words_vars, time_vars>>)
    \/ (UseSubtitleFile /\ UNCHANGED <<vtt_vars, words_vars, time_vars>>)
    \/ (ExtractVideoId /\ UNCHANGED <<vtt_vars, words_vars, time_vars>>)
    \/ (Layer1 /\ UNCHANGED <<vtt_vars, words_vars, time_vars>>)
    \/ (Layer2 /\ UNCHANGED <<vtt_vars, words_vars, time_vars>>)
    \/ (Layer3 /\ UNCHANGED <<vtt_vars, words_vars, time_vars>>)

Spec == Init /\ [][Next]_vars

\* the statements of get_transcript, which run one after the other once it
\* is called (each call of a library is taken to return)
Step ==
    /\ \/ UseAudioFile
       \/ UseSubtitleFile
       \/ ExtractVideoId
       \/ Layer1
       \/ Layer2
       \/ Layer3
    /\ UNCHANGED <<vtt_vars, words_vars, time_vars>>

SpecLive == Spec /\ WF_vars(Step)

-----------------------------------------------------------------------------
(* _parse_vtt run on a text of its own *)

VttInit ==
    /\ CallIdle
    /\ WordsIdle
    /\ TimeIdle
    /\ vtt_cues \in CueLists
    /\ \E pre \in 1..Len(Preambles) : content = VttText(pre, vtt_cues)
    /\ vtt_out = <<>>
    /\ vtt_pc = "ready"

ParseVtt ==
    /\ vtt_pc = "ready"
    /\ vtt_out' = _parse_vtt(content)
    /\ vtt_pc' = "done"
    /\ UNCHANGED <<vtt_cues, content>>
    /\ UNCHANGED <<call_vars, words_vars, time_vars>>

VttNext == ParseVtt

SpecVtt == VttInit /\ [][VttNext]_vars

-----------------------------------------------------------------------------
(* _words_to_subtitles run on word lists: up to MaxWordCount words that     *)
(* follow one another without a gap, and the fifteen words of 0.3 seconds.  *)

MaxWordCount == 4

\* a plain word, one that ends a sentence, one that ends it inside a quote
Tokens == {<<"a">>, <<"b", ".">>, <<"c", "!", "\"">>}

\* how long a word lasts, in ticks: 0.3 and 2 seconds
WordSpans == {3000, 20000}

RECURSIVE SpanSum(_, _)
SpanSum(spans, k) == IF k = 0 THEN 0 ELSE spans[k] + SpanSum(spans, k - 1)

WordsOf(tokens, spans) ==
    [k \in 1..Len(tokens) |->
        [start |-> SpanSum(spans, k - 1), end |-> SpanSum(spans, k),
         punctuated_word |-> tokens[k]]]

WordInputs ==
    UNION {{WordsOf(tokens, spans) : tokens \in [1..n -> Tokens], spans \in [1..n -> WordSpans]} :
              n \in 0..MaxWordCount}

FifteenWords == WordsOf([k \in 1..15 |-> <<"a">>], [k \in 1..15 |-> 3000])

MaxWordsChoices == {1, 2, DefaultMaxWords}

\* 2 seconds and the default
MaxDurationChoices == {20000, DefaultMaxDurationTicks}

WordsInit ==
    /\ CallIdle
    /\ VttIdle
    /\ TimeIdle
    /\ \/ /\ w_words \in WordInputs
          /\ w_max_words \in MaxWordsChoices
          /\ w_max_duration \in MaxDurationChoices
       \/ /\ w_words = FifteenWords
          /\ w_max_words = DefaultMaxWords
          /\ w_max_duration = DefaultMaxDurationTicks
    /\ w_out = <<>>
    /\ w_pc = "ready"

WordsToSubtitles ==
    /\ w_pc = "ready"
    /\ w_out' = _words_to_subtitles(w_words, w_max_words, w_max_duration)
    /\ w_pc' = "done"
    /\ UNCHANGED <<w_words, w_max_words, w_max_duration>>
    /\ UNCHANGED <<call_vars, vtt_vars, time_vars>>

WordsNext == WordsToSubtitles

SpecWords == WordsInit /\ [][WordsNext]_vars

-----------------------------------------------------------------------------
(* The time codec run on whole milliseconds and on timestamp texts *)

MaxHours == 2

\* values at the places where a digit carries, up to a hundred hours
TimeValues ==
    {h * 3600000 + m * 60000 + sec * 1000 + f :
        h \in (0..MaxHours) \cup {100}, m \in {0, 1, 59}, sec \in {0, 9, 59}, f \in {0, 1, 999}}

\* texts of the forms SS.mmm, MM:SS.mmm and HH:MM:SS.mmm, padded or not
TimeStrings ==
    { <<"9", "0">>,
      <<"5", ".", "2", "5">>,
      <<" ", "5", " ">>,
      <<"1", ":", "7", "5", ".", "5">>,
      <<"0", "2", ":", "0", "3", ".", "0", "0", "4">>,
      <<"1", ":", "2", ":", "3", ".", "5">>,
      <<"1", "0", ":", "5", "9", ":", "5", "9", ".", "9", "9", "9">> }

TimeInit ==
    /\ CallIdle
    /\ VttIdle
    /\ WordsIdle
    /\ t_seconds \in TimeValues
    /\ t_include_hours \in BOOLEAN
    /\ t_text \in TimeStrings
    /\ t_formatted = <<>>
    /\ t_back = ValueError
    /\ t_parsed = ValueError
    /\ t_reparsed = ValueError
    /\ t_pc = "ready"

\* time_to_seconds(seconds_to_time(x, include_hours)), and the same after
\* time_to_seconds(t)
RoundTrip ==
    /\ t_pc = "ready"
    /\ t_formatted' = seconds_to_time(t_seconds, t_include_hours, FALSE)
    /\ t_back' = time_to_seconds(t_formatted')
    /\ t_parsed' = time_to_seconds(t_text)
    /\ t_reparsed' = IF t_parsed'.ok
                     THEN time_to_seconds(seconds_to_time(t_parsed'.ms, t_include_hours, FALSE))
                     ELSE ValueError
    /\ t_pc' = "done"
    /\ UNCHANGED <<t_seconds, t_include_hours, t_text>>
    /\ UNCHANGED <<call_vars, vtt_vars, words_vars>>

TimeNext == RoundTrip

SpecTime == TimeInit /\ [][TimeNext]_vars

-----------------------------------------------------------------------------
(* get_transcript: the fallback chain *)

Structured == {"_try_youtube_transcript_api"}

SubtitleTrack == {"_try_ytdlp_download_subtitles", "_try_ytdlp_subtitles"}

SpeechRecognition == {"_try_deepgram_from_video", "_try_deepgram"}

\* the adapters get_transcript itself calls
TopLevel ==
    IF audio_file # <<>> THEN {"_try_deepgram"}
    ELSE IF subtitle_file # <<>> THEN {"_try_ytdlp_subtitles"}
    ELSE {"_try_youtube_transcript_api", "_try_ytdlp_download_subtitles",
          "_try_deepgram_from_video"}

Invoked(adapters) == \E k \in 1..Len(calls) : calls[k].adapter \in adapters

Logged(at) == \E k \in 1..Len(log) : log[k].at = at

\* the call is driven by the identifier: no audio_file and no subtitle_file
ChainCall == pc # "idle" /\ audio_file = <<>> /\ subtitle_file = <<>>

\* eleven characters of a video id and nothing else
ElevenCharacterId(text) == text.form = "bare" /\ text.id = "ascii11"

ValidIdentifier ==
    \/ validate_url(video_url_or_id) /\ extract_video_id_found(video_url_or_id)
    \/ ElevenCharacterId(video_url_or_id)

\* empty, or neither a valid YouTube URL nor an 11-character id
MalformedIdentifier ==
    \/ video_url_or_id.form = "empty"
    \/ ~validate_url(video_url_or_id) /\ ~ElevenCharacterId(video_url_or_id)

\* the RuntimeError raised when every adapter that applied gave nothing
AllSourcesExhausted(e) == e.type = "RuntimeError" /\ e.at \in {53, 61, 102}

\* the ValueError raised for the identifier
InvalidInput(e) == e.type = "ValueError" /\ e.at \in {65, 69, 73}

\* C1: when _try_youtube_transcript_api returns a non-empty result, neither the
\* subtitle-track adapter nor the speech-recognition adapter is invoked in that
\* call, and the result returned is the structured-API one.
C1_StructuredShortCircuits ==
    \A k \in 1..Len(calls) :
        (calls[k].adapter \in Structured /\ calls[k].gave = "result") =>
            /\ ~Invoked(SubtitleTrack)
            /\ ~Invoked(SpeechRecognition)
            /\ pc = "done"
            /\ returned = calls[k].result
            /\ returned.source = "youtube-api"
            /\ raised = NoException

C1_Witness ==
    /\ pc = "done"
    /\ Len(calls) = 1
    /\ calls[1].adapter \in Structured
    /\ calls[1].gave = "result"
    /\ returned.subtitle_count = 2

\* the fixed order among the calls made so far: the first is the structured
\* one, a subtitle-track call comes only after the structured call gave
\* nothing, a speech-recognition call only after the subtitle download gave
\* nothing
FixedOrder ==
    /\ calls # <<>> => calls[1].adapter \in Structured
    /\ \A k \in 1..Len(calls) :
          /\ calls[k].adapter \in SubtitleTrack =>
                \E j \in 1..(k - 1) :
                    calls[j].adapter \in Structured /\ calls[j].gave = "none"
          /\ calls[k].adapter \in SpeechRecognition =>
                \E j \in 1..(k - 1) :
                    /\ calls[j].adapter = "_try_ytdlp_download_subtitles"
                    /\ calls[j].gave = "none"

\* C2 as stated: every call, whatever subtitle_file, audio_file and video_path
\* it is given, starts at the structured adapter and moves only along
\* Structured -> SubtitleTrack -> SpeechRecognition.
C2_EveryCallFollowsChain == FixedOrder

\* C2 amended: a call given neither audio_file nor subtitle_file starts at the
\* structured adapter and moves only along the fixed order; a call given
\* audio_file invokes _try_deepgram alone and a call given only subtitle_file
\* invokes _try_ytdlp_subtitles alone, the structured adapter not being tried.
C2_ChainOrderWithoutDirectInput ==
    /\ ChainCall => FixedOrder
    /\ (pc # "idle" /\ ~ChainCall) =>
          /\ Len(calls) <= 1
          /\ \A k \in 1..Len(calls) : calls[k].adapter \in TopLevel
          /\ pc = "done" => Len(calls) = 1

C2_Witness ==
    /\ ChainCall
    /\ pc = "done"
    /\ Len(calls) = 4
    /\ calls[1].adapter \in Structured
    /\ calls[2].adapter \in SubtitleTrack
    /\ calls[3].adapter = "_try_deepgram_from_video"
    /\ calls[4].adapter = "_try_deepgram"

\* C3: a call with a valid identifier fails with the terminal error iff every
\* adapter that applied gave no result: it returns no result when all gave
\* none, raises nothing while one gave a result, and attempts no adapter once
\* it has failed.
C3_ExhaustedIffAllNone ==
    /\ [](( pc = "done" /\ ValidIdentifier ) =>
            /\ AllSourcesExhausted(raised) <=>
                   \A k \in 1..Len(calls) :
                       calls[k].adapter \in TopLevel => calls[k].gave = "none"
            /\ AllSourcesExhausted(raised) <=> returned = None
            /\ returned # None <=>
                   \E k \in 1..Len(calls) :
                       /\ calls[k].adapter \in TopLevel
                       /\ calls[k].gave = "result"
                       /\ calls[k].result = returned
            /\ raised # NoException => AllSourcesExhausted(raised))
    /\ [][pc = "done" => calls' = calls]_vars

C3_Witness ==
    /\ pc = "done"
    /\ ValidIdentifier
    /\ AllSourcesExhausted(raised)
    /\ Len(calls) = 4
    /\ \A k \in 1..4 : calls[k].gave = "none"

\* the lines that give the reason an adapter had no result
ReasonLines == {116, 164, 173, 202, 218, 244, 303, 310, 315, 342, 351, 356, 430}

\* the reasons written during the call
AdapterReasons == SelectSeq(log, LAMBDA m : m.at \in ReasonLines)

\* the key the speech-recognition adapters find
ApiKey == _get_deepgram_api_key(cred)

\* the chain has run out: the failure of lines 102-108
Exhausted == pc = "done" /\ ChainCall /\ AllSourcesExhausted(raised)

C6_MalformedRejectedBeforeAdapters ==
    (ChainCall /\ MalformedIdentifier) =>
        /\ calls = <<>>
        /\ pc \in {"start", "done"}
        /\ pc = "done" => InvalidInput(raised)

\* C7: no line the speech-recognition adapters write, and no error raised,
\* holds the value of the key.
C7_CredentialNeverSurfaced ==
    ApiKey # <<>> =>
        /\ \A k \in 1..Len(log) : ~Contains(log[k].text, ApiKey)
        /\ ~Contains(raised.text, ApiKey)

\* the name of the adapter in the result
SourceOf(adapter) ==
    IF adapter \in Structured THEN "youtube-api"
    ELSE IF adapter \in SubtitleTrack THEN "yt-dlp"
    ELSE "deepgram"

\* C8: every result get_transcript returns has at least one segment,
\* subtitle_count the number of segments, total_duration the end of the last
\* segment, language the language asked for, and source the name of the
\* adapter that produced it.
C8_ResultInvariants ==
    returned # None =>
        /\ returned.subtitles # <<>>
        /\ returned.subtitle_count = Len(returned.subtitles)
        /\ returned.total_duration = returned.subtitles[Len(returned.subtitles)].end
        /\ returned.language = language
        /\ returned.source \in {"youtube-api", "yt-dlp", "deepgram"}
        /\ \E k \in 1..Len(calls) : calls[k].gave = "result"
        /\ \A k \in 1..Len(calls) :
              calls[k].gave = "result" =>
                  /\ calls[k].result = returned
                  /\ returned.source = SourceOf(calls[k].adapter)

C8_Witness ==
    /\ pc = "done"
    /\ returned.source = "yt-dlp"
    /\ returned.subtitle_count = 2
    /\ returned.total_duration = returned.subtitles[2].end
    /\ returned.subtitles[1].end # returned.subtitles[2].end
    /\ language = "zh"

-----------------------------------------------------------------------------
(* _parse_vtt: what the cues of a track should give *)

\* the cue-level rule: a cue is emitted iff its text is non-empty and differs
\* from the text of the last emitted segment; it keeps its own times
RECURSIVE ExpectedSegments(_, _, _)
ExpectedSegments(cues, k, out) ==
    IF k > Len(cues) THEN out
    ELSE LET text == BlockKinds[cues[k]].text
             emit == text # <<>> /\ (out = <<>> \/ out[Len(out)].text # text)
         IN  ExpectedSegments(cues, k + 1,
                 IF emit
                 THEN Append(out, [start |-> BlockStartMs(k, cues[k]),
                                   end |-> BlockEndMs(k, cues[k]), text |-> text])
                 ELSE out)

Texts(subtitles) == [k \in 1..Len(subtitles) |-> subtitles[k].text]

CueTexts(cues) == [k \in 1..Len(cues) |-> BlockKinds[cues[k]].text]

\* C9: _parse_vtt suppresses only adjacent duplicates: a cue is emitted iff its
\* trimmed text is non-empty and differs from the text of the last emitted
\* segment; no two consecutive segments have equal text; [A, A, B, A] gives
\* [A, B, A]; the first cue of a duplicate pair is kept with its own times
\* (Hello 1.0-3.0, Hello 3.0-5.5, World 5.5-8.0 give 1.0-3.0 and 5.5-8.0).
C9_AdjacentDuplicatesOnly ==
    vtt_pc = "done" =>
        /\ vtt_out = ExpectedSegments(vtt_cues, 1, <<>>)
        /\ \A k \in 1..(Len(vtt_out) - 1) : vtt_out[k].text # vtt_out[k + 1].text
        /\ CueTexts(vtt_cues) = <<TextA, TextA, TextB, TextA>>
               => Texts(vtt_out) = <<TextA, TextB, TextA>>
        /\ vtt_cues = <<1, 1, 2>>
               => vtt_out = << [start |-> 1000, end |-> 3000, text |-> TextA],
                               [start |-> 5500, end |-> 8000, text |-> TextB] >>

C9_Witness ==
    /\ vtt_pc = "done"
    /\ vtt_cues = <<1, 1, 2, 1>>
    /\ Texts(vtt_out) = <<TextA, TextB, TextA>>
    /\ vtt_out[1].end = 3000

\* two cues of one text with only an empty cue between them
SplitByEmptyCue ==
    /\ Len(vtt_cues) = 3
    /\ CueTexts(vtt_cues)[1] # <<>>
    /\ CueTexts(vtt_cues)[2] = <<>>
    /\ CueTexts(vtt_cues)[3] = CueTexts(vtt_cues)[1]

\* C10 as stated: two identical cues separated by a cue whose text is empty
\* are not a duplicate: [A, <empty>, A] gives [A, A].
C10_EmptyCueSeparates ==
    (vtt_pc = "done" /\ SplitByEmptyCue) =>
        Texts(vtt_out) = <<CueTexts(vtt_cues)[1], CueTexts(vtt_cues)[3]>>

\* C10 amended: an empty cue emits nothing and leaves the last emitted segment
\* in place, so the second of two identical cues separated by an empty cue is
\* suppressed: [A, <empty>, A] gives [A], the first cue with its own times.
C10_EmptyCueDoesNotSeparate ==
    (vtt_pc = "done" /\ SplitByEmptyCue) =>
        vtt_out = << [start |-> BlockStartMs(1, vtt_cues[1]),
                      end |-> BlockEndMs(1, vtt_cues[1]),
                      text |-> CueTexts(vtt_cues)[1]] >>

C10_Witness ==
    /\ vtt_pc = "done"
    /\ vtt_cues = <<1, 3, 1>>
    /\ Texts(vtt_out) = <<TextA>>

-----------------------------------------------------------------------------
(* The segments the adapters produce *)

\* non-empty, and nothing to strip at either end
Trimmed(text) == text # <<>> /\ Strip(text) = text

\* C11: every segment of every list an adapter produced has a text that is
\* non-empty and has no leading or trailing whitespace (a snippet or
\* utterance whose trimmed text is empty is dropped).
C11_SegmentTextsTrimmed ==
    \A k \in 1..Len(calls) :
        \A j \in 1..Len(calls[k].result.subtitles) :
            Trimmed(calls[k].result.subtitles[j].text)

\* C12: the segments _parse_vtt returns have non-decreasing starts, and each
\* has end >= start, whatever the stamps of the cues.
C12_SegmentsOrdered ==
    vtt_pc = "done" =>
        /\ \A k \in 1..Len(vtt_out) : vtt_out[k].end >= vtt_out[k].start
        /\ \A k \in 1..(Len(vtt_out) - 1) : vtt_out[k].start <= vtt_out[k + 1].start

-----------------------------------------------------------------------------
(* _words_to_subtitles: the words of the segments it returns *)

\* the words of a segment (no token of the inputs holds a space)
SegmentWords(segment) == Split(segment.text, " ")

\* how many words the first j segments hold
RECURSIVE WordsBefore(_, _)
WordsBefore(subtitles, j) ==
    IF j = 0 THEN 0
    ELSE Len(SegmentWords(subtitles[j])) + WordsBefore(subtitles, j - 1)

\* the words of all the segments, in order
RECURSIVE AllSegmentWords(_)
AllSegmentWords(subtitles) ==
    IF subtitles = <<>> THEN <<>>
    ELSE SegmentWords(Head(subtitles)) \o AllSegmentWords(Tail(subtitles))

InputTokens == [k \in 1..Len(w_words) |-> w_words[k].punctuated_word]

\* the input positions of the first and the last word of segment j
FirstWord(j) == WordsBefore(w_out, j - 1) + 1

LastWord(j) == WordsBefore(w_out, j)

WordCounts == [j \in 1..Len(w_out) |-> Len(SegmentWords(w_out[j]))]

\* C13: no segment holds more than max_words words, and fifteen unpunctuated
\* words 0.3 s apart with max_words = 12 and max_duration = 5.0 give a
\* segment of 12 words and then one of 3.
C13_AtMostMaxWords ==
    w_pc = "done" =>
        /\ \A j \in 1..Len(w_out) : WordCounts[j] <= w_max_words
        /\ w_words = FifteenWords => WordCounts = <<12, 3>>

C13_Witness ==
    /\ w_pc = "done"
    /\ w_words = FifteenWords
    /\ w_max_words = 12
    /\ WordCounts = <<12, 3>>

\* C14: a word that ends a sentence (after its trailing quote and bracket
\* characters are stripped) is the last word of its segment, whatever the
\* count and the duration, and the word after it starts a new segment.
C14_SentenceEndCloses ==
    w_pc = "done" =>
        \A i \in 1..Len(w_words) :
            EndsSentence(w_words[i].punctuated_word) =>
                \E j \in 1..Len(w_out) :
                    /\ LastWord(j) = i
                    /\ w_out[j].end = Round3(w_words[i].end)
                    /\ i < Len(w_words) =>
                          /\ j < Len(w_out)
                          /\ FirstWord(j + 1) = i + 1
                          /\ w_out[j + 1].start = Round3(w_words[i + 1].start)

\* a one-word segment closed by the sentence end alone, in front of another
C14_Witness ==
    /\ w_pc = "done"
    /\ w_max_words = DefaultMaxWords
    /\ w_max_duration = DefaultMaxDurationTicks
    /\ Len(w_out) >= 2
    /\ w_out[1].text = <<"c", "!", "\"">>
    /\ w_out[1].end - w_out[1].start = 300

\* C15: the words of the segments, in order, are the input tokens; words
\* pending at the end of the input form the last segment; an empty input
\* gives an empty output and a non-empty input a non-empty output.
C15_NoWordDropped ==
    w_pc = "done" =>
        /\ AllSegmentWords(w_out) = InputTokens
        /\ w_words = <<>> <=> w_out = <<>>
        /\ w_words # <<>> =>
              /\ LastWord(Len(w_out)) = Len(w_words)
              /\ w_out[Len(w_out)].end = Round3(w_words[Len(w_words)].end)

\* two words pending at the end of the input, no threshold reached
C15_Witness ==
    /\ w_pc = "done"
    /\ Len(w_words) = 3
    /\ w_max_words = DefaultMaxWords
    /\ w_max_duration = DefaultMaxDurationTicks
    /\ Len(w_out) = 2
    /\ w_out[2].text = <<"a", " ", "a">>
    /\ w_out[2].end - w_out[2].start = 600

-----------------------------------------------------------------------------
(* The time codec: writing and reading back *)

\* C16: for a whole number of milliseconds x and both values of
\* include_hours, time_to_seconds(seconds_to_time(x)) is x; and for a valid
\* timestamp text t, reading t, writing the value and reading it again gives
\* the value read from t.
C16_TimeRoundTrip ==
    t_pc = "done" =>
        /\ t_back.ok
        /\ t_back.ms = t_seconds
        /\ t_parsed.ok
        /\ t_reparsed.ok
        /\ t_reparsed.ms = t_parsed.ms

\* an hour and more written without include_hours, and a text whose seconds
\* pass 60
C16_Witness ==
    /\ t_pc = "done"
    /\ ~t_include_hours
    /\ t_seconds = 3600000 + 59 * 60000 + 59 * 1000 + 999
    /\ Len(t_formatted) = 12
    /\ t_text = <<"1", ":", "7", "5", ".", "5">>
    /\ t_parsed.ms = 135500
    /\ t_back.ms = t_seconds

-----------------------------------------------------------------------------
(* get_transcript: the end of the call, and which adapters it reaches *)

\* C17: every call ends, with a result or with a failure, and within a call
\* no adapter is attempted twice (the calls are made one after the other).
C17_TerminatesEachAdapterOnce ==
    /\ (pc = "start") ~> (pc = "done")
    /\ [](pc = "done" => (returned # None) # (raised # NoException))
    /\ [](\A j, k \in 1..Len(calls) : calls[j].adapter = calls[k].adapter => j = k)

C17_Witness ==
    /\ pc = "done"
    /\ raised = Exception("RuntimeError", 102, <<>>)
    /\ Len(calls) = 5
    /\ \A k \in 1..5 : calls[k].gave = "none"

\* lines 303-430: what the speech-recognition adapters write
SpeechLines == {303, 304, 310, 311, 315, 328, 337, 342, 351, 356, 361, 430}

\* C18: in the chain the speech-recognition adapter is invoked only when a
\* video_path was given and the file exists; otherwise the call fails after
\* the subtitle-track adapter without any speech-recognition call, audio
\* extraction, key lookup or transcription request.
C18_SpeechOnlyWithVideo ==
    ChainCall =>
        /\ Invoked(SpeechRecognition) => (video_path # <<>> /\ video_exists)
        /\ (pc = "done" /\ ~(video_path # <<>> /\ video_exists)
               /\ Invoked({"_try_ytdlp_download_subtitles"}) /\ returned = None) =>
              /\ raised = Exception("RuntimeError", 102, <<>>)
              /\ ~Invoked(SpeechRecognition)
              /\ \A k \in 1..Len(log) : log[k].at \notin SpeechLines
              /\ wav = "absent"

\* a video_path at which no file stands
C18_Witness ==
    /\ ChainCall
    /\ pc = "done"
    /\ video_path # <<>>
    /\ ~video_exists
    /\ Invoked({"_try_ytdlp_download_subtitles"})
    /\ raised = Exception("RuntimeError", 102, <<>>)
    /\ ~Invoked(SpeechRecognition)

\* C20: audio_file comes before subtitle_file and subtitle_file before the
\* identifier; with audio_file the one adapter call is _try_deepgram and with
\* subtitle_file alone it is _try_ytdlp_subtitles, and when it gives nothing
\* the call fails without another adapter, whatever identifier and
\* video_path were given.
C20_DirectInputPrecedence ==
    /\ (pc # "idle" /\ audio_file # <<>>) =>
          /\ \A k \in 1..Len(calls) : calls[k].adapter = "_try_deepgram"
          /\ Len(calls) <= 1
          /\ pc = "done" =>
                /\ Len(calls) = 1
                /\ calls[1].gave = "none" => raised = Exception("RuntimeError", 53, <<>>)
                /\ calls[1].gave = "result" => returned = calls[1].result
    /\ (pc # "idle" /\ audio_file = <<>> /\ subtitle_file # <<>>) =>
          /\ \A k \in 1..Len(calls) : calls[k].adapter = "_try_ytdlp_subtitles"
          /\ Len(calls) <= 1
          /\ pc = "done" =>
                /\ Len(calls) = 1
                /\ calls[1].gave = "none" =>
                      raised = Exception("RuntimeError", 61, subtitle_file)
                /\ calls[1].gave = "result" => returned = calls[1].result

\* every input given at once: the audio file alone is used
C20_Witness ==
    /\ pc = "done"
    /\ audio_file # <<>>
    /\ subtitle_file # <<>>
    /\ ValidIdentifier
    /\ video_path # <<>>
    /\ video_exists
    /\ Len(calls) = 1
    /\ calls[1].adapter = "_try_deepgram"
    /\ raised = Exception("RuntimeError", 53, <<>>)

-----------------------------------------------------------------------------
(* _try_deepgram_from_video: the wav file beside the video *)

\* _try_deepgram_from_video was called and went past the tests of the SDK,
\* of the key and of the video file (lines 300-316)
PastKeyCheck ==
    /\ Invoked({"_try_deepgram_from_video"})
    /\ ~Logged(303)
    /\ ~Logged(310)
    /\ ~Logged(315)

\* C21: when _try_deepgram_from_video has returned on a path past the key
\* check, the wav file it wrote beside the video does not exist, and a wav
\* file that stood there before the call is still there with its content.
C21_WavRemovedOthersKept ==
    [][(pc = "layer3" /\ pc' = "done" /\ PastKeyCheck') =>
          /\ wav = "absent" => wav' = "absent"
          /\ wav = "preexisting" => wav' = "preexisting"]_vars

====
